---- MODULE Spec2Model ----
(***************************************************************************)
(* changelog-md: the Changelog data model (src/src/lib.rs), its serde      *)
(* encodings (YAML, TOML, JSON), the Markdown renderer and the commands of *)
(* the command-line tool (src/src/main.rs) that read, change and rewrite   *)
(* the changelog source file.                                              *)
(*                                                                         *)
(* Strings are TLA+ strings.  A string that may hold newlines (the two     *)
(* description fields) is the sequence of its pieces between newlines:     *)
(* "a\nb\n" is <<"a", "b", "">>.  The rendered Markdown is the sequence of *)
(* its lines.  Option<String> is <<>> (None) or <<s>> (Some(s)).  An       *)
(* encoded document is the tree the serializer emits: scalars, arrays and  *)
(* mappings with ordered entries.                                          *)
(***************************************************************************)
EXTENDS Integers, Sequences, FiniteSets, TLC

VARIABLES file, mem, cmd, status, md

vars == <<file, mem, cmd, status, md>>

(***************************************************************************)
(* Bounds of the model.                                                    *)
(***************************************************************************)
\* most change entries a document holds before `add` is no longer explored
MaxEntries == 2
\* most versions of an in-memory Changelog handed to the codec
MaxVersions == 2
\* most versions of a Changelog handed to the renderer
MaxRender == 3

(***************************************************************************)
(* Option<String>                                                          *)
(***************************************************************************)
None == <<>>

Some(s) == <<s>>

is_none(o) == o = <<>>

unwrap_or(o, d) == IF o = <<>> THEN d ELSE o[1]

(***************************************************************************)
(* struct Changes: six sequences of strings, in field order.               *)
(***************************************************************************)
Categories == <<"added", "changed", "deprecated", "removed", "fixed", "security">>

ChangesDefault ==
    [added |-> <<>>, changed |-> <<>>, deprecated |-> <<>>,
     removed |-> <<>>, fixed |-> <<>>, security |-> <<>>]

push_added(self, change) == [self EXCEPT !.added = Append(@, change)]

push_changed(self, change) == [self EXCEPT !.changed = Append(@, change)]

push_deprecated(self, change) == [self EXCEPT !.deprecated = Append(@, change)]

\* mutant of push_fixed: the entry lands in the neighbouring category
push_fixed_into_removed(self, change) == [self EXCEPT !.removed = Append(@, change)]

push_fixed(self, change) == [self EXCEPT !.fixed = Append(@, change)]

push_removed(self, change) == [self EXCEPT !.removed = Append(@, change)]

push_security(self, change) == [self EXCEPT !.security = Append(@, change)]

is_empty(self) ==
    /\ self.added = <<>>
    /\ self.changed = <<>>
    /\ self.deprecated = <<>>
    /\ self.fixed = <<>>
    /\ self.removed = <<>>
    /\ self.security = <<>>

(***************************************************************************)
(* struct Version and struct Changelog.                                    *)
(***************************************************************************)
VersionDefault ==
    [version |-> "", tag |-> "", date |-> "", description |-> None,
     yanked |-> None, changes |-> ChangesDefault]

ChangelogDefault ==
    [title |-> "Changelog",
     description |->
         <<"All notable changes to this project will be documented in this file",
           "",
           "The format is based on [Keep a Changelog](https://keepachangelog.com/en/1.1.0/),",
           "and this project adheres to [Semantic Versioning](https://semver.org/spec/v2.0.0.html).",
           "">>,
     repository |-> "https://github.com/me/my-swanky-project",
     unreleased |->
         [ChangesDefault EXCEPT
             !.added = <<"Starting using [changelog-md](https://github.com/kageurufu/changelog-md)">>],
     versions |-> <<>>]

(***************************************************************************)
(* Encoded documents: the tree a serde serializer receives.                *)
(* k is "str", "bool", "null", "arr" or "map"; kids are the entries of an  *)
(* array (key "") or of a mapping, in document order.                      *)
(***************************************************************************)
StrNode(s) == [k |-> "str", s |-> <<s>>, kids |-> <<>>]

BoolNode == [k |-> "bool", s |-> <<>>, kids |-> <<>>]

NullNode == [k |-> "null", s |-> <<>>, kids |-> <<>>]

Entry(key, val) == [key |-> key, val |-> val]

ArrNode(items) ==
    [k |-> "arr", s |-> <<>>, kids |-> [i \in 1..Len(items) |-> Entry("", items[i])]]

MapNode(entries) == [k |-> "map", s |-> <<>>, kids |-> entries]

Ok(v) == [ok |-> TRUE, val |-> <<v>>]

Err == [ok |-> FALSE, val |-> <<>>]

Has(es, key) == \E i \in 1..Len(es) : es[i].key = key

Count(es, key) == Cardinality({i \in 1..Len(es) : es[i].key = key})

Get(es, key) == es[CHOOSE i \in 1..Len(es) : es[i].key = key].val

Select(es, keys) == SelectSeq(es, LAMBDA e : e.key \in keys)

Range(s) == {s[i] : i \in 1..Len(s)}

RECURSIVE Flatten(_)
Flatten(ss) == IF ss = <<>> THEN <<>> ELSE Head(ss) \o Flatten(Tail(ss))

(***************************************************************************)
(* Serialize (serde derive).  Empty category sequences and absent options  *)
(* are skipped; a Version is emitted as one flat mapping that starts with  *)
(* its "$key$" field and inlines the entries of its changes.               *)
(***************************************************************************)
SerVecString(v) == ArrNode([i \in 1..Len(v) |-> StrNode(v[i])])

\* mutant of SerChanges: an empty category is written as an empty array
SerChangesEmitEmpty(c) ==
    [i \in 1..Len(Categories) |-> Entry(Categories[i], SerVecString(c[Categories[i]]))]

SerChanges(c) ==
    Flatten([i \in 1..Len(Categories) |->
        IF c[Categories[i]] = <<>> THEN <<>>
        ELSE <<Entry(Categories[i], SerVecString(c[Categories[i]]))>>])

SerVersion(v) ==
    <<Entry("$key$", StrNode(v.version)),
      Entry("tag", StrNode(v.tag)),
      Entry("date", StrNode(v.date))>>
    \o (IF is_none(v.description) THEN <<>>
        ELSE <<Entry("description", StrNode(v.description[1]))>>)
    \o (IF is_none(v.yanked) THEN <<>>
        ELSE <<Entry("yanked", StrNode(v.yanked[1]))>>)
    \o SerChanges(v.changes)

\* mutant of KeyValueMapSer: a plain array of full objects, "version" inline
KeyValueMapSerInline(items) ==
    ArrNode([i \in 1..Len(items) |->
        MapNode([j \in 1..Len(SerVersion(items[i])) |->
            IF SerVersion(items[i])[j].key = "$key$"
            THEN Entry("version", SerVersion(items[i])[j].val)
            ELSE SerVersion(items[i])[j]])])

\* serde_with KeyValueMap: every element becomes one entry of a mapping, its
\* "$key$" field the key and its other fields the value
KeyValueMapSer(items) ==
    MapNode([i \in 1..Len(items) |->
        LET es == SerVersion(items[i])
        IN  Entry(Get(es, "$key$").s[1],
                  MapNode(SelectSeq(es, LAMBDA e : e.key # "$key$")))])

\* mutant of SerChangelog: an empty unreleased bucket is skipped
SerChangelogSkipEmpty(c) ==
    MapNode(<<Entry("title", StrNode(c.title)),
              Entry("description", StrNode(c.description)),
              Entry("repository", StrNode(c.repository))>>
            \o (IF is_empty(c.unreleased) THEN <<>>
                ELSE <<Entry("unreleased", MapNode(SerChanges(c.unreleased)))>>)
            \o <<Entry("versions", KeyValueMapSer(c.versions))>>)

SerChangelog(c) ==
    MapNode(<<Entry("title", StrNode(c.title)),
              Entry("description", StrNode(c.description)),
              Entry("repository", StrNode(c.repository)),
              Entry("unreleased", MapNode(SerChanges(c.unreleased))),
              Entry("versions", KeyValueMapSer(c.versions))>>)

to_yaml(self) == SerChangelog(self)

to_toml(self) == SerChangelog(self)

to_json(self) == SerChangelog(self)

(***************************************************************************)
(* Deserialize (serde derive, deny_unknown_fields).                        *)
(***************************************************************************)
DeString(n) == IF n.k = "str" THEN Ok(n.s[1]) ELSE Err

DeOptionString(n) ==
    IF n.k = "null" THEN Ok(None)
    ELSE IF n.k = "str" THEN Ok(Some(n.s[1]))
    ELSE Err

DeVecString(n) ==
    IF n.k = "arr" /\ \A i \in 1..Len(n.kids) : n.kids[i].val.k = "str"
    THEN Ok([i \in 1..Len(n.kids) |-> n.kids[i].val.s[1]])
    ELSE Err

\* the field visitor of Changes over entries whose keys are all categories:
\* a repeated field or a value that is not an array of strings is an error,
\* a missing field is the empty sequence
DeChangesFields(es) ==
    IF \E i, j \in 1..Len(es) : i < j /\ es[i].key = es[j].key THEN Err
    ELSE IF \E i \in 1..Len(es) : ~DeVecString(es[i].val).ok THEN Err
    ELSE LET F(c) == IF Has(es, c) THEN DeVecString(Get(es, c)).val[1] ELSE <<>>
         IN  Ok([added |-> F("added"), changed |-> F("changed"),
                 deprecated |-> F("deprecated"), removed |-> F("removed"),
                 fixed |-> F("fixed"), security |-> F("security")])

DeChanges(n) ==
    IF n.k = "map"
    THEN IF \E i \in 1..Len(n.kids) : n.kids[i].key \notin Range(Categories)
         THEN Err
         ELSE DeChangesFields(n.kids)
    ELSE IF n.k = "arr" /\ Len(n.kids) <= Len(Categories)
    THEN DeChangesFields([i \in 1..Len(n.kids) |-> Entry(Categories[i], n.kids[i].val)])
    ELSE Err

VersionFields == {"$key$", "tag", "date", "description", "yanked"}

\* mutant of DeVersionEntries: entries left over after flattening are ignored
DeVersionEntriesLax(es) ==
    LET own == Select(es, VersionFields)
        flat == Select(es, Range(Categories))
        description == IF Has(own, "description")
                       THEN DeOptionString(Get(own, "description")) ELSE Ok(None)
        yanked == IF Has(own, "yanked")
                  THEN DeOptionString(Get(own, "yanked")) ELSE Ok(None)
        changes == DeChangesFields(flat)
    IN  IF \E i, j \in 1..Len(own) : i < j /\ own[i].key = own[j].key THEN Err
        ELSE IF \E f \in {"$key$", "tag", "date"} : ~Has(own, f) THEN Err
        ELSE IF \E f \in {"$key$", "tag", "date"} : ~DeString(Get(own, f)).ok THEN Err
        ELSE IF ~description.ok \/ ~yanked.ok THEN Err
        ELSE IF ~changes.ok THEN Err
        ELSE Ok([version |-> DeString(Get(own, "$key$")).val[1],
                 tag |-> DeString(Get(own, "tag")).val[1],
                 date |-> DeString(Get(own, "date")).val[1],
                 description |-> description.val[1],
                 yanked |-> yanked.val[1],
                 changes |-> changes.val[1]])

\* Version has a flattened field: its visitor keeps the entries it does not
\* know, hands those named like a category to Changes and, with
\* deny_unknown_fields, fails on any entry left over
DeVersionEntries(es) ==
    LET own == Select(es, VersionFields)
        collect == SelectSeq(es, LAMBDA e : e.key \notin VersionFields)
        flat == Select(collect, Range(Categories))
        description == IF Has(own, "description")
                       THEN DeOptionString(Get(own, "description")) ELSE Ok(None)
        yanked == IF Has(own, "yanked")
                  THEN DeOptionString(Get(own, "yanked")) ELSE Ok(None)
        changes == DeChangesFields(flat)
    IN  IF \E i, j \in 1..Len(own) : i < j /\ own[i].key = own[j].key THEN Err
        ELSE IF \E f \in {"$key$", "tag", "date"} : ~Has(own, f) THEN Err
        ELSE IF \E f \in {"$key$", "tag", "date"} : ~DeString(Get(own, f)).ok THEN Err
        ELSE IF ~description.ok \/ ~yanked.ok THEN Err
        ELSE IF ~changes.ok THEN Err
        ELSE IF Len(flat) # Len(collect) THEN Err
        ELSE Ok([version |-> DeString(Get(own, "$key$")).val[1],
                 tag |-> DeString(Get(own, "tag")).val[1],
                 date |-> DeString(Get(own, "date")).val[1],
                 description |-> description.val[1],
                 yanked |-> yanked.val[1],
                 changes |-> changes.val[1]])

\* one entry of the mapping read as a Version: its key comes first, as the
\* "$key$" field, before the entries of its value
KeyValueMapElem(e) ==
    IF e.val.k # "map" THEN Err
    ELSE DeVersionEntries(<<Entry("$key$", StrNode(e.key))>> \o e.val.kids)

\* mutant of KeyValueMapElems: the entries are read last to first
KeyValueMapElemsReversed(es) ==
    [i \in 1..Len(es) |-> KeyValueMapElem(es[Len(es) + 1 - i])]

RECURSIVE KeyValueMapElems(_)
\* the visitor's loop over the entries of the mapping, in document order
KeyValueMapElems(es) ==
    IF es = <<>> THEN <<>>
    ELSE <<KeyValueMapElem(Head(es))>> \o KeyValueMapElems(Tail(es))

\* serde_with KeyValueMap: accepts a mapping only; every entry is read as
\* the element whose "$key$" field is the entry's key
KeyValueMapDe(n) ==
    IF n.k # "map" THEN Err
    ELSE LET elems == KeyValueMapElems(n.kids)
         IN  IF \E i \in 1..Len(elems) : ~elems[i].ok THEN Err
             ELSE Ok([i \in 1..Len(elems) |-> elems[i].val[1]])

ChangelogFields == <<"title", "description", "repository", "unreleased", "versions">>

DeChangelogEntries(es) ==
    LET unreleased == DeChanges(Get(es, "unreleased"))
        versions == KeyValueMapDe(Get(es, "versions"))
    IN  IF \E i \in 1..Len(es) : es[i].key \notin Range(ChangelogFields) THEN Err
        ELSE IF \E f \in Range(ChangelogFields) : Count(es, f) # 1 THEN Err
        ELSE IF \E f \in {"title", "description", "repository"} : ~DeString(Get(es, f)).ok
        THEN Err
        ELSE IF ~unreleased.ok THEN Err
        ELSE IF ~versions.ok THEN Err
        ELSE Ok([title |-> DeString(Get(es, "title")).val[1],
                 description |-> DeString(Get(es, "description")).val[1],
                 repository |-> DeString(Get(es, "repository")).val[1],
                 unreleased |-> unreleased.val[1],
                 versions |-> versions.val[1]])

DeChangelog(n) ==
    IF n.k = "map" THEN DeChangelogEntries(n.kids)
    ELSE IF n.k = "arr" /\ Len(n.kids) = Len(ChangelogFields)
    THEN DeChangelogEntries([i \in 1..Len(n.kids) |->
                                Entry(ChangelogFields[i], n.kids[i].val)])
    ELSE Err

RECURSIVE TomlRejects(_)
\* what a TOML document cannot hold: a null, a key defined twice, a root
\* that is not a table
TomlRejects(n) ==
    \/ n.k = "null"
    \/ /\ n.k = "map"
       /\ \E i, j \in 1..Len(n.kids) : i < j /\ n.kids[i].key = n.kids[j].key
    \/ \E i \in 1..Len(n.kids) : TomlRejects(n.kids[i].val)

from_yaml(s) == DeChangelog(s)

from_json(s) == DeChangelog(s)

from_toml(s) == IF s.k # "map" \/ TomlRejects(s) THEN Err ELSE DeChangelog(s)

(***************************************************************************)
(* The changelog source file: its format (from the extension) and its      *)
(* document, or no file.                                                   *)
(***************************************************************************)
Formats == {"yaml", "toml", "json"}

NoFile == [fmt |-> "none", doc |-> NullNode]

File(fmt, doc) == [fmt |-> fmt, doc |-> doc]

exists(path) == path.fmt # "none"

from_path(path) ==
    IF ~exists(path) THEN Err
    ELSE IF path.fmt = "yaml" THEN from_yaml(path.doc)
    ELSE IF path.fmt = "toml" THEN from_toml(path.doc)
    ELSE IF path.fmt = "json" THEN from_json(path.doc)
    ELSE Err

to_string(format, seed) ==
    IF format = "yaml" THEN to_yaml(seed)
    ELSE IF format = "toml" THEN to_toml(seed)
    ELSE to_json(seed)

(***************************************************************************)
(* The Markdown renderer (the Display impls).  Every fmt is the sequence   *)
(* of the lines it writes to the formatter; each of them ends its output   *)
(* with a newline or writes nothing.                                       *)
(***************************************************************************)
\* writeln!(f, "{}", s) of a string: the pieces of s between newlines are
\* the lines written
writeln(text) == text

\* writeln!(f, "{}", x) of a value whose fmt wrote the lines `block`: the
\* newline added after them is one more, empty, line
writeln_display(block) == block \o <<"">>

ends_with_newline(text) == Len(text) >= 2 /\ text[Len(text)] = ""

RECURSIVE trim_start(_)
trim_start(text) ==
    IF Len(text) > 1 /\ text[1] = "" THEN trim_start(Tail(text)) ELSE text

RECURSIVE trim_end(_)
trim_end(text) ==
    IF Len(text) > 1 /\ text[Len(text)] = ""
    THEN trim_end(SubSeq(text, 1, Len(text) - 1))
    ELSE text

\* str::trim on a text whose pieces carry no blanks of their own
trim(text) == trim_end(trim_start(text))

write_changes_if_exist(title, changes) ==
    IF changes # <<>>
    THEN <<"", "### " \o title, "">>
         \o [i \in 1..Len(changes) |-> "- " \o changes[i]]
    ELSE <<>>

\* mutant of fmt_Changes: the Fixed block is written before the Removed block
fmt_Changes_fixed_first(self) ==
    write_changes_if_exist("Added", self.added)
    \o write_changes_if_exist("Changed", self.changed)
    \o write_changes_if_exist("Deprecated", self.deprecated)
    \o write_changes_if_exist("Fixed", self.fixed)
    \o write_changes_if_exist("Removed", self.removed)
    \o write_changes_if_exist("Security", self.security)

fmt_Changes(self) ==
    write_changes_if_exist("Added", self.added)
    \o write_changes_if_exist("Changed", self.changed)
    \o write_changes_if_exist("Deprecated", self.deprecated)
    \o write_changes_if_exist("Removed", self.removed)
    \o write_changes_if_exist("Fixed", self.fixed)
    \o write_changes_if_exist("Security", self.security)

fmt_Version(self) ==
    <<"## " \o self.version \o " - " \o self.date
      \o (IF is_none(self.yanked) THEN "" ELSE " [YANKED] " \o self.yanked[1]),
      "">>
    \o (IF is_none(self.description) THEN <<>> ELSE writeln(trim(self.description[1])))
    \o (IF ~is_empty(self.changes) THEN writeln_display(fmt_Changes(self.changes)) ELSE <<>>)

\* mutant of fmt_compare_links: the two tags of a compare link change places
fmt_compare_links_swapped(self) ==
    [k \in 1..(Len(self.versions) - 1) |->
        "- [" \o self.versions[k].version \o "] <" \o self.repository
        \o "/compare/" \o self.versions[k].tag \o ".." \o self.versions[k + 1].tag \o ">"]

\* for idx in 0..(versions.len() - 1): versions[idx] is self.versions[k]
fmt_compare_links(self) ==
    [k \in 1..(Len(self.versions) - 1) |->
        "- [" \o self.versions[k].version \o "] <" \o self.repository
        \o "/compare/" \o self.versions[k + 1].tag \o ".." \o self.versions[k].tag \o ">"]

fmt_revisions(self) ==
    IF self.versions = <<>>
    THEN <<"- [unreleased] <" \o self.repository \o "/commits/>">>
    ELSE LET last == self.versions[Len(self.versions)]
         IN  <<"- [unreleased] <" \o self.repository \o "/compare/"
               \o self.versions[1].tag \o "...HEAD>">>
             \o fmt_compare_links(self)
             \o <<"- [" \o last.version \o "] <" \o self.repository
                  \o "/commits/" \o last.tag \o ">">>

fmt_Changelog(self) ==
    <<"# " \o self.title, "">>
    \o writeln(self.description)
    \o (IF ~ends_with_newline(self.description) THEN <<"">> ELSE <<>>)
    \o (IF ~is_empty(self.unreleased)
        THEN <<"## [Unreleased]">> \o writeln_display(fmt_Changes(self.unreleased))
        ELSE <<>>)
    \o Flatten([i \in 1..Len(self.versions) |-> fmt_Version(self.versions[i])])
    \o <<"", "# Revisions", "">>
    \o fmt_revisions(self)

(***************************************************************************)
(* The commands of main() that change the changelog: the part of each      *)
(* handler between reading the file and writing it back.                   *)
(***************************************************************************)
ChangeTypes == {"Added", "Changed", "Deprecated", "Removed", "Fixed", "Security"}

\* Command::Add: match change_type { ... }
add(changelog, change_type, description) ==
    [changelog EXCEPT !.unreleased =
        IF change_type = "Added" THEN push_added(@, description)
        ELSE IF change_type = "Changed" THEN push_changed(@, description)
        ELSE IF change_type = "Deprecated" THEN push_deprecated(@, description)
        ELSE IF change_type = "Removed" THEN push_removed(@, description)
        ELSE IF change_type = "Fixed" THEN push_fixed(@, description)
        ELSE push_security(@, description)]

version_exists(changelog, version) ==
    \E i \in 1..Len(changelog.versions) : changelog.versions[i].version = version

\* mutant of release: the new Version is pushed at the end
release_at_end(changelog, version, tag, date, description) ==
    IF \E i \in 1..Len(changelog.versions) : changelog.versions[i].version = version
    THEN [ok |-> FALSE, changelog |-> changelog]
    ELSE [ok |-> TRUE,
          changelog |->
              [changelog EXCEPT
                  !.unreleased = ChangesDefault,
                  !.versions =
                      Append(@, [VersionDefault EXCEPT
                                    !.version = version,
                                    !.tag = tag,
                                    !.date = date,
                                    !.description = description,
                                    !.changes = changelog.unreleased])]]

\* mutant of release: no check for an existing version
release_unchecked(changelog, version, tag, date, description) ==
    [ok |-> TRUE,
     changelog |->
         [changelog EXCEPT
             !.unreleased = ChangesDefault,
             !.versions =
                 <<[VersionDefault EXCEPT
                       !.version = version,
                       !.tag = tag,
                       !.date = date,
                       !.description = description,
                       !.changes = changelog.unreleased]>> \o @]]

\* mutant of release: the new Version starts with empty changes
release_drops_changes(changelog, version, tag, date, description) ==
    IF \E i \in 1..Len(changelog.versions) : changelog.versions[i].version = version
    THEN [ok |-> FALSE, changelog |-> changelog]
    ELSE [ok |-> TRUE,
          changelog |->
              [changelog EXCEPT
                  !.unreleased = ChangesDefault,
                  !.versions =
                      <<[VersionDefault EXCEPT
                            !.version = version,
                            !.tag = tag,
                            !.date = date,
                            !.description = description]>> \o @]]

\* Command::Release, once date and tag have their defaults: bails when the
\* version exists, else moves unreleased into a new Version at index 0
release(changelog, version, tag, date, description) ==
    IF version_exists(changelog, version)
    THEN [ok |-> FALSE, changelog |-> changelog]
    ELSE [ok |-> TRUE,
          changelog |->
              [changelog EXCEPT
                  !.unreleased = ChangesDefault,
                  !.versions =
                      <<[VersionDefault EXCEPT
                            !.version = version,
                            !.tag = tag,
                            !.date = date,
                            !.description = description,
                            !.changes = changelog.unreleased]>> \o @]]

\* mutant of yank: once a version matches, every version is marked
yank_every(changelog, version, reason) ==
    [ok |-> \E i \in 1..Len(changelog.versions) : changelog.versions[i].version = version,
     changelog |->
         [changelog EXCEPT !.versions =
             [i \in 1..Len(@) |->
                 IF \E j \in 1..Len(@) : @[j].version = version
                 THEN [@[i] EXCEPT !.yanked = Some(reason)]
                 ELSE @[i]]]]

\* mutant of yank: the success flag is not consulted
yank_always_ok(changelog, version, reason) ==
    [ok |-> TRUE,
     changelog |->
         [changelog EXCEPT !.versions =
             [i \in 1..Len(@) |->
                 IF @[i].version = version
                 THEN [@[i] EXCEPT !.yanked = Some(reason)]
                 ELSE @[i]]]]

\* Command::Yank: the loop over &mut changelog.versions and its success flag
yank(changelog, version, reason) ==
    [ok |-> version_exists(changelog, version),
     changelog |->
         [changelog EXCEPT !.versions =
             [i \in 1..Len(@) |->
                 IF @[i].version = version
                 THEN [@[i] EXCEPT !.yanked = Some(reason)]
                 ELSE @[i]]]]

(***************************************************************************)
(* State: the changelog source file, the Changelog value a caller holds in *)
(* memory, the last operation and how it ended, the rendered Markdown.     *)
(***************************************************************************)
NoValue == [none |-> TRUE]

NoOutput == <<>>

RECURSIVE Sum(_)
Sum(ns) == IF ns = <<>> THEN 0 ELSE Head(ns) + Sum(Tail(ns))

CountChanges(c) == Sum([i \in 1..Len(Categories) |-> Len(c[Categories[i]])])

\* change entries of a whole document
Entries(changelog) ==
    CountChanges(changelog.unreleased)
    + Sum([i \in 1..Len(changelog.versions) |-> CountChanges(changelog.versions[i].changes)])

\* inputs of the commands
Texts == {"x"}

VersionArgs == {"1.0.0", "2.0.0"}

\* release 1.0.0 with every option left out, release 2.0.0 with every option given
ReleaseArgs ==
    {[version |-> "1.0.0", tag |-> None, date |-> None, description |-> None],
     [version |-> "2.0.0", tag |-> Some("v2.0.0"), date |-> Some("2025-01-01"),
      description |-> Some(<<"Release notes", "">>)]}

Reasons == {"broken build"}

Clock == {"2026-01-01"}

Remotes == {None}

\* init --format, left at its default
InitFormats == {"yaml"}

CmdInit(format, remote) ==
    /\ cmd' = "init"
    /\ IF exists(file)
       THEN /\ status' = "err"
            /\ UNCHANGED file
       ELSE LET seed == [ChangelogDefault EXCEPT !.repository = unwrap_or(remote, @)]
            IN  /\ file' = File(format, to_string(format, seed))
                /\ status' = "ok"
    /\ UNCHANGED <<mem, md>>

CmdAdd(change_type, description) ==
    \E r \in {from_path(file)} :
        /\ r.ok => Entries(r.val[1]) < MaxEntries
        /\ cmd' = "add"
        /\ IF ~r.ok
           THEN /\ status' = "err"
                /\ UNCHANGED file
           ELSE /\ file' = File(file.fmt,
                                to_string(file.fmt, add(r.val[1], change_type, description)))
                /\ status' = "ok"
        /\ UNCHANGED <<mem, md>>

CmdRelease(a, today) ==
    \E r \in {from_path(file)} :
        LET date == unwrap_or(a.date, today)
            tag == unwrap_or(a.tag, a.version)
        IN  /\ cmd' = "release"
            /\ IF ~r.ok
               THEN /\ status' = "err"
                    /\ UNCHANGED file
               ELSE \E out \in {release(r.val[1], a.version, tag, date, a.description)} :
                        IF ~out.ok
                        THEN /\ status' = "err"
                             /\ UNCHANGED file
                        ELSE /\ file' = File(file.fmt, to_string(file.fmt, out.changelog))
                             /\ status' = "ok"
            /\ UNCHANGED <<mem, md>>

CmdYank(version, reason) ==
    \E r \in {from_path(file)} :
        /\ cmd' = "yank"
        /\ IF ~r.ok
           THEN /\ status' = "err"
                /\ UNCHANGED file
           ELSE \E out \in {yank(r.val[1], version, reason)} :
                    IF ~out.ok
                    THEN /\ status' = "err"
                         /\ UNCHANGED file
                    ELSE /\ file' = File(file.fmt, to_string(file.fmt, out.changelog))
                         /\ status' = "ok"
        /\ UNCHANGED <<mem, md>>

CmdRender ==
    \E r \in {from_path(file)} :
        /\ cmd' = "render"
        /\ IF ~r.ok
           THEN /\ status' = "err"
                /\ UNCHANGED md
           ELSE /\ md' = fmt_Changelog(r.val[1])
                /\ status' = "ok"
        /\ UNCHANGED <<file, mem>>

\* Format::to_string and std::fs::write of a Changelog held in memory
Write(format) ==
    /\ mem # NoValue
    /\ file' = File(format, to_string(format, mem))
    /\ cmd' = "write"
    /\ status' = "ok"
    /\ UNCHANGED <<mem, md>>

\* Changelog::from_path
Read ==
    \E r \in {from_path(file)} :
        /\ exists(file)
        /\ cmd' = "read"
        /\ IF r.ok
           THEN /\ mem' = r.val[1]
                /\ status' = "ok"
           ELSE /\ mem' = NoValue
                /\ status' = "err"
        /\ UNCHANGED <<file, md>>

(***************************************************************************)
(* Documents written by hand: what a user can put in the source file.      *)
(***************************************************************************)
WithEntry(n, e) == MapNode(Append(n.kids, e))

SetChild(n, key, val) ==
    MapNode([i \in 1..Len(n.kids) |->
        IF n.kids[i].key = key THEN Entry(key, val) ELSE n.kids[i]])

ExtraField == Entry("extra_field", BoolNode)

\* the same versions written as an array of full objects, "version" inline
ArrayForm(versions) ==
    ArrNode([i \in 1..Len(versions.kids) |->
        MapNode(<<Entry("version", StrNode(versions.kids[i].key))>>
                \o versions.kids[i].val.kids)])

EditKinds == {"root", "unreleased", "version", "array"}

Edit(doc, kind) ==
    LET versions == Get(doc.kids, "versions")
    IN  IF kind = "root" THEN WithEntry(doc, ExtraField)
        ELSE IF kind = "unreleased"
        THEN SetChild(doc, "unreleased", WithEntry(Get(doc.kids, "unreleased"), ExtraField))
        ELSE IF kind = "version"
        THEN SetChild(doc, "versions",
                 MapNode([i \in 1..Len(versions.kids) |->
                     IF i = Len(versions.kids)
                     THEN Entry(versions.kids[i].key, WithEntry(versions.kids[i].val, ExtraField))
                     ELSE versions.kids[i]]))
        ELSE SetChild(doc, "versions", ArrayForm(versions))

SampleVersion(version, tag, description, yanked, changes) ==
    [version |-> version, tag |-> tag, date |-> "2025-01-01",
     description |-> description, yanked |-> yanked, changes |-> changes]

SampleChangelog(description, unreleased, versions) ==
    [title |-> "Changelog", description |-> description,
     repository |-> "https://example.com/r",
     unreleased |-> unreleased, versions |-> versions]

\* two entries under one version string, as a JSON object with a repeated key
DuplicateDoc ==
    SerChangelog(SampleChangelog(<<"Notes", "">>, ChangesDefault,
        <<SampleVersion("1.0.0", "v1.0.0-rc", None, None,
                        [ChangesDefault EXCEPT !.fixed = <<"f1">>]),
          SampleVersion("1.0.0", "v1.0.0", None, None, ChangesDefault)>>))

UnknownFieldDoc ==
    Edit(SerChangelog(SampleChangelog(<<"Notes", "">>, ChangesDefault, <<>>)), "root")

\* one released version, and a category written out as an empty array
TomlDoc ==
    LET doc == SerChangelog(SampleChangelog(<<"Notes", "">>,
                   [ChangesDefault EXCEPT !.changed = <<"c1">>],
                   <<SampleVersion("1.0.0", "v1.0.0", None, None, ChangesDefault)>>))
    IN  SetChild(doc, "unreleased",
            WithEntry(Get(doc.kids, "unreleased"), Entry("added", ArrNode(<<>>))))

HandWritten ==
    {File("json", DuplicateDoc), File("yaml", UnknownFieldDoc), File("toml", TomlDoc)}

(***************************************************************************)
(* The command-line tool working on one changelog source file.             *)
(***************************************************************************)
Init ==
    /\ file \in {NoFile} \cup HandWritten
    /\ mem = NoValue
    /\ cmd = "none"
    /\ status = "ok"
    /\ md = NoOutput

Next ==
    \/ \E format \in InitFormats, remote \in Remotes : CmdInit(format, remote)
    \/ \E change_type \in ChangeTypes, description \in Texts : CmdAdd(change_type, description)
    \/ \E a \in ReleaseArgs, today \in Clock : CmdRelease(a, today)
    \/ \E version \in VersionArgs, reason \in Reasons : CmdYank(version, reason)

Spec == Init /\ [][Next]_vars

(***************************************************************************)
(* The renderer on its own: `render` of a source file holding one of a     *)
(* bounded set of Changelogs.                                              *)
(***************************************************************************)
InjectiveSeqs(S, n) ==
    {s \in [1..n -> S] : \A i, j \in 1..n : i < j => s[i].version # s[j].version}

AllSix ==
    [added |-> <<"a1">>, changed |-> <<"c1">>, deprecated |-> <<"d1">>,
     removed |-> <<"r1">>, fixed |-> <<"f1">>, security |-> <<"s1">>]

RenderPool ==
    {SampleVersion("2.0.0", "v2.0.0", None, None,
                   [ChangesDefault EXCEPT !.added = <<"a1", "a2">>, !.fixed = <<"f1">>]),
     SampleVersion("1.1.0", "v1.1.0", Some(<<"", "Notes", "">>), Some("broken build"),
                   ChangesDefault),
     SampleVersion("1.0.0", "release-1", Some(<<"First">>), None,
                   [ChangesDefault EXCEPT !.security = <<"s1">>, !.changed = <<"c1">>]),
     SampleVersion("0.1.0", "0.1.0", None, None, AllSix)}

RenderInputs ==
    {SampleChangelog(d, u, vs) :
        d \in {<<"Notes">>, <<"Notes", "">>, <<"Notes", "", "">>},
        u \in {ChangesDefault, AllSix,
               [ChangesDefault EXCEPT !.removed = <<"r1", "r2">>]},
        vs \in UNION {InjectiveSeqs(RenderPool, n) : n \in 0..MaxRender}}

RenderFiles ==
    {File(fmt, to_string(fmt, c)) : fmt \in Formats, c \in RenderInputs}
    \cup {File("yaml", UnknownFieldDoc)}

InitRender ==
    /\ file \in RenderFiles
    /\ mem = NoValue
    /\ cmd = "none"
    /\ status = "ok"
    /\ md = NoOutput

NextRender == CmdRender

SpecRender == InitRender /\ [][NextRender]_vars

(***************************************************************************)
(* The codec on its own: a Changelog built in memory is written in one of  *)
(* the three formats and read back; a file edited by hand is read.         *)
(***************************************************************************)
CodecNames == {"2.0.0", "1.0.0", "0.1.0"}

CodecVersions ==
    UNION {{SampleVersion(n, "v" \o n, None, None, ChangesDefault),
            SampleVersion(n, n, Some(<<"Notes", "">>), None,
                          [ChangesDefault EXCEPT !.fixed = <<"f1", "f2">>]),
            SampleVersion(n, "v" \o n, None, Some("broken build"),
                          [ChangesDefault EXCEPT !.added = <<"a1">>, !.security = <<"s1">>]),
            SampleVersion(n, n, Some(<<"Notes">>), Some(""), ChangesDefault)} :
           n \in CodecNames}

CodecUnreleased ==
    {ChangesDefault, AllSix,
     [ChangesDefault EXCEPT !.added = <<"a1", "a2">>],
     [ChangesDefault EXCEPT !.changed = <<"c1">>, !.fixed = <<"f1">>],
     [ChangesDefault EXCEPT !.deprecated = <<"d1">>, !.removed = <<"r1">>,
                            !.security = <<"s1">>],
     [AllSix EXCEPT !.added = <<>>, !.security = <<>>]}

CodecInputs ==
    {SampleChangelog(<<"Notes", "">>, u, vs) :
        u \in CodecUnreleased,
        vs \in UNION {InjectiveSeqs(CodecVersions, n) : n \in 0..MaxVersions}}

EditedFiles ==
    {File(fmt, Edit(to_string(fmt, c), kind)) :
        fmt \in Formats,
        c \in {x \in CodecInputs : x.unreleased = AllSix /\ x.versions # <<>>},
        kind \in EditKinds}

InitCodec ==
    /\ \/ mem \in CodecInputs /\ file = NoFile
       \/ mem = NoValue /\ file \in EditedFiles
    /\ cmd = "none"
    /\ status = "ok"
    /\ md = NoOutput

NextCodec ==
    \/ \E format \in Formats : Write(format)
    \/ Read

SpecCodec == InitCodec /\ [][NextCodec]_vars

(***************************************************************************)
(* Histories: a sequence of init, add, release and yank commands on one    *)
(* source file, observed at its end by a render, or by a read of the file  *)
(* followed by a write of the value read (convert).                        *)
(***************************************************************************)
Observations == {"render", "read", "write"}

InitHistory == Init

\* the commands run while nothing has been observed yet
Running == cmd \notin Observations

NextHistory ==
    \/ Running /\ \E format \in InitFormats, remote \in Remotes : CmdInit(format, remote)
    \/ Running /\ \E change_type \in ChangeTypes, description \in Texts :
                      CmdAdd(change_type, description)
    \/ Running /\ \E a \in ReleaseArgs, today \in Clock : CmdRelease(a, today)
    \/ Running /\ \E version \in VersionArgs, reason \in Reasons : CmdYank(version, reason)
    \/ Running /\ CmdRender
    \/ Running /\ Read
    \/ cmd = "read" /\ status = "ok" /\ \E format \in Formats : Write(format)

SpecHistory == InitHistory /\ [][NextHistory]_vars

(***************************************************************************)
(* Properties.                                                             *)
(***************************************************************************)
\* the Changelog a source file decodes to
Decodes(f) == from_path(f).ok

Doc(f) == from_path(f).val[1]

SameMetadata(old, new) ==
    /\ new.title = old.title
    /\ new.description = old.description
    /\ new.repository = old.repository

\* ---- C1 ----------------------------------------------------------------
\* the lines of the rendered output after the "# Revisions" heading and the
\* blank line that follows it
RevisionsHeading(out) ==
    CHOOSE h \in 1..Len(out) :
        /\ out[h] = "# Revisions"
        /\ \A k \in (h + 1)..Len(out) : out[k] # "# Revisions"

RevisionsSection(out) == SubSeq(out, RevisionsHeading(out) + 2, Len(out))

ExpectedRevisions(c) ==
    LET n == Len(c.versions)
    IN  IF n = 0
        THEN <<"- [unreleased] <" \o c.repository \o "/commits/>">>
        ELSE [i \in 1..(n + 1) |->
                 IF i = 1
                 THEN "- [unreleased] <" \o c.repository \o "/compare/"
                      \o c.versions[1].tag \o "...HEAD>"
                 ELSE IF i <= n
                 THEN "- [" \o c.versions[i - 1].version \o "] <" \o c.repository
                      \o "/compare/" \o c.versions[i].tag \o ".."
                      \o c.versions[i - 1].tag \o ">"
                 ELSE "- [" \o c.versions[n].version \o "] <" \o c.repository
                      \o "/commits/" \o c.versions[n].tag \o ">"]

\* C1: the rendered Revisions section is one "commits/" line when there are
\* no versions, and otherwise len(versions)+1 lines: the unreleased compare
\* link to HEAD, a two-tag compare link for every version but the oldest, in
\* order, and the single-tag commits link for the oldest version.
C1_RevisionLinks ==
    (cmd = "render" /\ status = "ok") =>
        /\ md[RevisionsHeading(md) + 1] = ""
        /\ RevisionsSection(md) = ExpectedRevisions(Doc(file))
        /\ Len(RevisionsSection(md)) = Len(Doc(file).versions) + 1

C1_Witness ==
    /\ cmd = "render"
    /\ status = "ok"
    /\ Len(Doc(file).versions) = 3
    /\ Len(RevisionsSection(md)) = 4

\* ---- C2 ----------------------------------------------------------------
\* C2: in each of the three formats, reading back the file a Changelog was
\* written to succeeds and yields a Changelog equal to the one written.
C2_RoundTrip ==
    [][(cmd = "write" /\ cmd' = "read") => (status' = "ok" /\ mem' = mem)]_vars

C2_Witness ==
    /\ cmd = "read"
    /\ status = "ok"
    /\ file.fmt = "toml"
    /\ file.doc = to_toml(mem)
    /\ Len(mem.versions) = 2
    /\ is_empty(mem.unreleased)
    /\ mem.versions[1].yanked # None /\ mem.versions[1].description = None
    /\ mem.versions[2].yanked = None /\ is_empty(mem.versions[2].changes)

\* ---- C3 ----------------------------------------------------------------
BodyFields == {"tag", "date", "description", "yanked"} \cup Range(Categories)

UnknownAtRoot(doc) ==
    doc.k = "map" /\ \E i \in 1..Len(doc.kids) : doc.kids[i].key \notin Range(ChangelogFields)

UnknownInUnreleased(doc) ==
    /\ doc.k = "map"
    /\ Has(doc.kids, "unreleased")
    /\ LET u == Get(doc.kids, "unreleased")
       IN  u.k = "map" /\ \E i \in 1..Len(u.kids) : u.kids[i].key \notin Range(Categories)

UnknownInVersion(doc) ==
    /\ doc.k = "map"
    /\ Has(doc.kids, "versions")
    /\ LET vs == Get(doc.kids, "versions")
       IN  /\ vs.k = "map"
           /\ \E i \in 1..Len(vs.kids) :
                  /\ vs.kids[i].val.k = "map"
                  /\ \E j \in 1..Len(vs.kids[i].val.kids) :
                         vs.kids[i].val.kids[j].key \notin BodyFields

\* C3: reading a document with a field that is not in the schema, at the
\* root, in the unreleased bucket or in a version entry, fails in every
\* format and yields no Changelog.
C3_StrictSchema ==
    (/\ cmd = "read"
     /\ \/ UnknownAtRoot(file.doc)
        \/ UnknownInUnreleased(file.doc)
        \/ UnknownInVersion(file.doc))
    => (status = "err" /\ mem = NoValue)

C3_Witness ==
    /\ cmd = "read"
    /\ status = "err"
    /\ file.fmt = "json"
    /\ UnknownInVersion(file.doc)
    /\ ~UnknownAtRoot(file.doc)
    /\ ~UnknownInUnreleased(file.doc)

\* ---- C4 ----------------------------------------------------------------
\* C4: a release of a version string the document does not hold succeeds and
\* leaves unreleased empty and versions one longer, the new entry at index 0
\* with the given version, date and description, the given tag or else the
\* version string as tag, no yanked reason and the old unreleased as changes,
\* followed by the old versions unchanged.
C4_Release ==
    [][\A a \in ReleaseArgs, today \in Clock :
        (/\ cmd' = "release"
         /\ CmdRelease(a, today)
         /\ Decodes(file)
         /\ \A i \in 1..Len(Doc(file).versions) : Doc(file).versions[i].version # a.version)
        => /\ status' = "ok"
           /\ Decodes(file')
           /\ LET old == Doc(file)
                  new == Doc(file')
              IN  /\ \A i \in 1..Len(Categories) : new.unreleased[Categories[i]] = <<>>
                  /\ Len(new.versions) = Len(old.versions) + 1
                  /\ new.versions[1] =
                         [version |-> a.version,
                          tag |-> IF a.tag = None THEN a.version ELSE a.tag[1],
                          date |-> IF a.date = None THEN today ELSE a.date[1],
                          description |-> a.description,
                          yanked |-> None,
                          changes |-> old.unreleased]
                  /\ \A i \in 1..Len(old.versions) : new.versions[i + 1] = old.versions[i]
                  /\ SameMetadata(old, new)]_vars

C4_Witness ==
    /\ cmd = "release"
    /\ status = "ok"
    /\ Decodes(file)
    /\ Len(Doc(file).versions) = 2
    /\ Doc(file).versions[1].version = "1.0.0"
    /\ Doc(file).versions[1].tag = "1.0.0"
    /\ Doc(file).versions[1].changes.fixed = <<"x">>
    /\ Doc(file).versions[2].version = "2.0.0"
    /\ Doc(file).versions[2].tag = "v2.0.0"
    /\ is_empty(Doc(file).unreleased)

\* ---- C5 ----------------------------------------------------------------
\* C5: a release of a version string the document already holds fails and
\* leaves the file as it was; the Changelog in memory is not changed either.
C5_DuplicateRelease ==
    [][\A a \in ReleaseArgs, today \in Clock :
        (/\ cmd' = "release"
         /\ CmdRelease(a, today)
         /\ Decodes(file)
         /\ \E i \in 1..Len(Doc(file).versions) : Doc(file).versions[i].version = a.version)
        => /\ status' = "err"
           /\ file' = file
           /\ release(Doc(file), a.version, unwrap_or(a.tag, a.version),
                      unwrap_or(a.date, today), a.description).changelog = Doc(file)]_vars

C5_Witness ==
    /\ cmd = "release"
    /\ status = "err"
    /\ Decodes(file)
    /\ Len(Doc(file).versions) = 1
    /\ ~is_empty(Doc(file).unreleased)

\* ---- C6 ----------------------------------------------------------------
\* C6: a successful yank sets the reason on the entries with the given
\* version string and changes nothing else: their other fields, the other
\* versions, the number and order of versions, unreleased and the metadata.
C6_YankFrame ==
    [][\A version \in VersionArgs, reason \in Reasons :
        (cmd' = "yank" /\ CmdYank(version, reason) /\ status' = "ok")
        => /\ Decodes(file')
           /\ LET old == Doc(file)
                  new == Doc(file')
              IN  /\ Len(new.versions) = Len(old.versions)
                  /\ \A i \in 1..Len(old.versions) :
                         IF old.versions[i].version = version
                         THEN new.versions[i] = [old.versions[i] EXCEPT !.yanked = <<reason>>]
                         ELSE new.versions[i] = old.versions[i]
                  /\ new.unreleased = old.unreleased
                  /\ SameMetadata(old, new)]_vars

C6_Witness ==
    /\ cmd = "yank"
    /\ status = "ok"
    /\ Len(Doc(file).versions) = 2
    /\ Doc(file).versions[1].version # Doc(file).versions[2].version
    /\ Doc(file).versions[1].yanked = None
    /\ Doc(file).versions[2].yanked = <<"broken build">>
    /\ ~is_empty(Doc(file).unreleased)

\* ---- C7 ----------------------------------------------------------------
\* C7: a yank sets the reason on the first entry, in document order, with
\* the given version string, and changes the yanked field of no other entry.
C7_YankFirstMatch ==
    [][\A version \in VersionArgs, reason \in Reasons :
        (cmd' = "yank" /\ CmdYank(version, reason) /\ status' = "ok")
        => LET old == Doc(file)
               new == Doc(file')
               first == CHOOSE i \in 1..Len(old.versions) :
                            /\ old.versions[i].version = version
                            /\ \A j \in 1..(i - 1) : old.versions[j].version # version
           IN  /\ new.versions[first].yanked = <<reason>>
               /\ \A i \in 1..Len(old.versions) :
                      i # first => new.versions[i].yanked = old.versions[i].yanked]_vars

\* ---- C8 ----------------------------------------------------------------
\* C8: a yank of a version string the document does not hold fails and
\* leaves the file as it was.
C8_YankMissing ==
    [][\A version \in VersionArgs, reason \in Reasons :
        (/\ cmd' = "yank"
         /\ CmdYank(version, reason)
         /\ Decodes(file)
         /\ \A i \in 1..Len(Doc(file).versions) : Doc(file).versions[i].version # version)
        => (status' = "err" /\ file' = file)]_vars

C8_Witness ==
    /\ cmd = "yank"
    /\ status = "err"
    /\ Decodes(file)
    /\ Len(Doc(file).versions) = 1
    /\ Doc(file).versions[1].yanked = None

\* ---- C9 ----------------------------------------------------------------
CategoryOf(change_type) ==
    IF change_type = "Added" THEN "added"
    ELSE IF change_type = "Changed" THEN "changed"
    ELSE IF change_type = "Deprecated" THEN "deprecated"
    ELSE IF change_type = "Removed" THEN "removed"
    ELSE IF change_type = "Fixed" THEN "fixed"
    ELSE "security"

\* C9: add appends the one given string at the end of the unreleased
\* sequence of the named category and leaves the other five sequences, the
\* versions and the metadata unchanged.
C9_Add ==
    [][\A change_type \in ChangeTypes, description \in Texts :
        (cmd' = "add" /\ CmdAdd(change_type, description) /\ Decodes(file))
        => /\ status' = "ok"
           /\ Decodes(file')
           /\ LET old == Doc(file)
                  new == Doc(file')
              IN  /\ \A i \in 1..Len(Categories) :
                         new.unreleased[Categories[i]] =
                             IF Categories[i] = CategoryOf(change_type)
                             THEN old.unreleased[Categories[i]] \o <<description>>
                             ELSE old.unreleased[Categories[i]]
                  /\ new.versions = old.versions
                  /\ SameMetadata(old, new)]_vars

C9_Witness ==
    /\ cmd = "add"
    /\ status = "ok"
    /\ Doc(file).unreleased.added = ChangelogDefault.unreleased.added \o <<"x">>
    /\ Len(Doc(file).versions) = 0

\* ---- C10 ---------------------------------------------------------------
\* versions as a mapping keyed by version string, the key not in the value
KeyedMap(n, versions) ==
    /\ n.k = "map"
    /\ Len(n.kids) = Len(versions)
    /\ \A i \in 1..Len(versions) :
           /\ n.kids[i].key = versions[i].version
           /\ n.kids[i].val.k = "map"
           /\ ~Has(n.kids[i].val.kids, "version")
           /\ ~Has(n.kids[i].val.kids, "$key$")

\* versions as an array of full objects with the version field inline
InlineArray(n, versions) ==
    /\ n.k = "arr"
    /\ Len(n.kids) = Len(versions)
    /\ \A i \in 1..Len(versions) :
           /\ n.kids[i].val.k = "map"
           /\ Has(n.kids[i].val.kids, "version")
           /\ Get(n.kids[i].val.kids, "version") = StrNode(versions[i].version)

VersionsNode(f) == Get(f.doc.kids, "versions")

\* C10 as stated: YAML and TOML write versions as a keyed mapping, JSON
\* writes it as an array of full objects with the version inline.
C10_JsonArray ==
    cmd = "write" =>
        IF file.fmt = "json"
        THEN InlineArray(VersionsNode(file), mem.versions)
        ELSE KeyedMap(VersionsNode(file), mem.versions)

\* C10 amended: in all three formats, JSON included, versions is written as
\* a mapping keyed by version string with the key removed from the value, a
\* file that decodes has versions in that shape, and versions written as an
\* array of full objects does not decode.
C10_KeyedInEveryFormat ==
    /\ cmd = "write" => KeyedMap(VersionsNode(file), mem.versions)
    /\ (cmd = "read" /\ status = "ok") => KeyedMap(VersionsNode(file), mem.versions)
    /\ (cmd = "read" /\ file.doc.k = "map" /\ Has(file.doc.kids, "versions")
        /\ VersionsNode(file).k = "arr") => status = "err"

C10_Witness ==
    /\ cmd = "write"
    /\ file.fmt = "json"
    /\ Len(mem.versions) = 2
    /\ KeyedMap(VersionsNode(file), mem.versions)

\* ---- C11 ---------------------------------------------------------------
\* the entries written for a Changes value: one array per non-empty category
\* and no entry, not even an empty array, for an empty one
CategoriesWritten(es, changes) ==
    \A i \in 1..Len(Categories) :
        IF changes[Categories[i]] = <<>>
        THEN ~Has(es, Categories[i])
        ELSE /\ Count(es, Categories[i]) = 1
             /\ Get(es, Categories[i]) = SerVecString(changes[Categories[i]])

VersionBody(f, i) == VersionsNode(f).kids[i].val.kids

\* C11 as stated: an empty category is not written, and a Changes with six
\* empty categories, a version's or the root unreleased bucket, is left out
\* of the written document.
C11_EmptyBucketOmitted ==
    cmd = "write" =>
        /\ \A i \in 1..Len(mem.versions) :
               CategoriesWritten(VersionBody(file, i), mem.versions[i].changes)
        /\ IF is_empty(mem.unreleased)
           THEN ~Has(file.doc.kids, "unreleased")
           ELSE CategoriesWritten(Get(file.doc.kids, "unreleased").kids, mem.unreleased)

\* C11 amended: in every format an empty category is not written (never as
\* an empty array) and a version whose changes are all empty has no category
\* field at all, but the root unreleased field is always written: as an
\* empty mapping when its six categories are empty.
C11_EmptyCategoriesOmitted ==
    cmd = "write" =>
        /\ \A i \in 1..Len(mem.versions) :
               /\ CategoriesWritten(VersionBody(file, i), mem.versions[i].changes)
               /\ is_empty(mem.versions[i].changes) =>
                      \A j \in 1..Len(VersionBody(file, i)) :
                          VersionBody(file, i)[j].key \notin Range(Categories)
        /\ Count(file.doc.kids, "unreleased") = 1
        /\ Get(file.doc.kids, "unreleased").k = "map"
        /\ CategoriesWritten(Get(file.doc.kids, "unreleased").kids, mem.unreleased)
        /\ is_empty(mem.unreleased) => Get(file.doc.kids, "unreleased") = MapNode(<<>>)

C11_Witness ==
    /\ cmd = "write"
    /\ file.fmt = "yaml"
    /\ is_empty(mem.unreleased)
    /\ Get(file.doc.kids, "unreleased") = MapNode(<<>>)
    /\ Len(mem.versions) = 2
    /\ is_empty(mem.versions[2].changes)
    /\ ~is_empty(mem.versions[1].changes)

\* ---- C12 ---------------------------------------------------------------
Titles == <<"Added", "Changed", "Deprecated", "Removed", "Fixed", "Security">>

CategoryHeadings == {"### " \o Titles[i] : i \in 1..Len(Titles)}

\* the bullet lines a document can give rise to
Bullets(c) ==
    {"- " \o e : e \in UNION ({Range(c.unreleased[Categories[i]]) : i \in 1..Len(Categories)}
                              \cup {Range(c.versions[n].changes[Categories[i]]) :
                                       n \in 1..Len(c.versions), i \in 1..Len(Categories)})}

VersionHeading(v) ==
    "## " \o v.version \o " - " \o v.date
    \o (IF v.yanked = None THEN "" ELSE " [YANKED] " \o v.yanked[1])

\* the lines that open a section of the output
SectionHeadings(c) ==
    {"## [Unreleased]", "# Revisions"}
    \cup {VersionHeading(c.versions[n]) : n \in 1..Len(c.versions)}

Shown(out, line) == \E i \in 1..Len(out) : out[i] = line

\* the lines after the section heading `line`, up to the next section heading
Section(out, c, line) ==
    LET h == CHOOSE i \in 1..Len(out) : out[i] = line
        e == CHOOSE j \in (h + 1)..Len(out) :
                 /\ out[j] \in SectionHeadings(c)
                 /\ \A k \in (h + 1)..(j - 1) : out[k] \notin SectionHeadings(c)
    IN  SubSeq(out, h + 1, e - 1)

\* the category headings and bullets among some lines, in their order
BlockLines(lines, c) ==
    SelectSeq(lines, LAMBDA l : l \in CategoryHeadings \cup Bullets(c))

\* one heading per non-empty category in the fixed order, each followed by
\* one bullet per entry in the entry order
ExpectedBlocks(changes) ==
    Flatten([i \in 1..Len(Categories) |->
        IF changes[Categories[i]] = <<>> THEN <<>>
        ELSE <<"### " \o Titles[i]>>
             \o [j \in 1..Len(changes[Categories[i]]) |-> "- " \o changes[Categories[i]][j]]])

\* C12: the "## [Unreleased]" heading is rendered exactly when unreleased has
\* a non-empty category; under it and under every version heading there is a
\* "### <Category>" block for exactly the non-empty categories, in the order
\* Added, Changed, Deprecated, Removed, Fixed, Security, each with one bullet
\* per entry in the entry order; all-empty changes render no block, and no
\* block is rendered anywhere else.
C12_CategoryBlocks ==
    (cmd = "render" /\ status = "ok") =>
        LET c == Doc(file)
        IN  /\ Shown(md, "## [Unreleased]") <=> ~is_empty(c.unreleased)
            /\ Shown(md, "## [Unreleased]") =>
                   BlockLines(Section(md, c, "## [Unreleased]"), c) = ExpectedBlocks(c.unreleased)
            /\ \A n \in 1..Len(c.versions) :
                   /\ Shown(md, VersionHeading(c.versions[n]))
                   /\ BlockLines(Section(md, c, VersionHeading(c.versions[n])), c)
                          = ExpectedBlocks(c.versions[n].changes)
            /\ Len(BlockLines(md, c)) =
                   Len(ExpectedBlocks(c.unreleased))
                   + Sum([n \in 1..Len(c.versions) |-> Len(ExpectedBlocks(c.versions[n].changes))])

C12_Witness ==
    /\ cmd = "render"
    /\ status = "ok"
    /\ Doc(file).unreleased = AllSix
    /\ Len(Doc(file).versions) = 2
    /\ is_empty(Doc(file).versions[1].changes)
    /\ Doc(file).versions[2].changes.added = <<"a1", "a2">>
    /\ Len(BlockLines(Section(md, Doc(file), "## [Unreleased]"), Doc(file))) = 12
    /\ BlockLines(Section(md, Doc(file), VersionHeading(Doc(file).versions[1])), Doc(file)) = <<>>

\* ---- C13 ---------------------------------------------------------------
\* the section that follows the description starts at line p of the output:
\* the unreleased heading, a version heading, or the Revisions section (the
\* blank line written before its heading, then the heading)
NextSectionAt(out, c, p) ==
    /\ p + 1 <= Len(out)
    /\ \/ out[p] \in SectionHeadings(c) \ {"# Revisions"}
       \/ out[p] = "" /\ out[p + 1] = "# Revisions"

\* C13: for a description that ends in zero, one or several newlines the
\* output is the title heading, a blank line, the lines of the description
\* up to its last line of text, exactly one blank line, and then the next
\* section.
C13_OneBlankLine ==
    (cmd = "render" /\ status = "ok") =>
        LET c == Doc(file)
            text == trim_end(c.description)
            n == Len(text)
        IN  /\ md[1] = "# " \o c.title
            /\ md[2] = ""
            /\ SubSeq(md, 3, n + 2) = text
            /\ md[n + 3] = ""
            /\ NextSectionAt(md, c, n + 4)

\* ---- C14 ---------------------------------------------------------------
\* the version strings of a sequence of versions, in order
VersionStrings(versions) == [i \in 1..Len(versions) |-> versions[i].version]

\* the keys of the versions mapping of a source file, in document order
VersionKeys(f) == [i \in 1..Len(VersionsNode(f).kids) |-> VersionsNode(f).kids[i].key]

\* the version heading lines of the rendered output, in output order
VersionHeadingLines(out, c) ==
    SelectSeq(out, LAMBDA l : l \in {VersionHeading(c.versions[n]) : n \in 1..Len(c.versions)})

\* C14: a read yields the versions in the document order of the mapping,
\* each key as the version field; a write emits them in sequence order; a
\* render walks them in that order; and over every add, release and yank the
\* versions that were there keep their order: the step leaves the sequence
\* of version strings as it was or puts one new string in front of it.
C14_OrderKept ==
    /\ []((cmd = "read" /\ status = "ok") => VersionStrings(mem.versions) = VersionKeys(file))
    /\ [](cmd = "write" => VersionKeys(file) = VersionStrings(mem.versions))
    /\ []((cmd = "render" /\ status = "ok") =>
             VersionHeadingLines(md, Doc(file)) =
                 [n \in 1..Len(Doc(file).versions) |-> VersionHeading(Doc(file).versions[n])])
    /\ [][(cmd' \in {"add", "release", "yank"} /\ Decodes(file)) =>
             /\ Decodes(file')
             /\ LET old == VersionStrings(Doc(file).versions)
                    new == VersionStrings(Doc(file').versions)
                IN  \/ new = old
                    \/ cmd' = "release" /\ Len(new) = Len(old) + 1 /\ Tail(new) = old]_vars

C14_Witness ==
    /\ cmd = "render"
    /\ status = "ok"
    /\ VersionStrings(Doc(file).versions) = <<"2.0.0", "1.0.0">>
    /\ Doc(file).versions[2].yanked # None
    /\ VersionHeadingLines(md, Doc(file)) =
           <<"## 2.0.0 - 2025-01-01", "## 1.0.0 - 2026-01-01 [YANKED] broken build">>

\* ---- C15 ---------------------------------------------------------------
Distinct(versions) ==
    \A i, j \in 1..Len(versions) : i < j => versions[i].version # versions[j].version

\* C15: init writes a document with no versions, and every add, release and
\* yank, successful or rejected, that starts from a document whose version
\* strings are pairwise distinct ends with a document whose version strings
\* are pairwise distinct; so they stay distinct over any sequence of them.
C15_Unique ==
    [][/\ (cmd' = "init" /\ status' = "ok") =>
              (Decodes(file') /\ Doc(file').versions = <<>>)
       /\ (cmd' \in {"add", "release", "yank"} /\ Decodes(file) /\ Distinct(Doc(file).versions)) =>
              (Decodes(file') /\ Distinct(Doc(file').versions))]_vars

C15_Witness ==
    /\ cmd = "release"
    /\ status = "err"
    /\ Decodes(file)
    /\ Len(Doc(file).versions) = 2
    /\ Distinct(Doc(file).versions)
    /\ Doc(file).versions[2].yanked # None

\* ---- C16 ---------------------------------------------------------------
\* the entries of one category over the whole document: those of unreleased,
\* then those of each version in order
Collected(c, category) ==
    c.unreleased[category]
    \o Flatten([n \in 1..Len(c.versions) |-> c.versions[n].changes[category]])

IsPrefix(s, t) == Len(s) <= Len(t) /\ SubSeq(t, 1, Len(s)) = s

\* C16: over every add, release and yank no version is removed and only a
\* successful release adds one, and exactly one; a release and a yank leave
\* the entries collected per category over unreleased and all versions as
\* they were, an add keeps every entry and adds exactly one; a yanked reason
\* that was set stays set; and a release of a new version string with
\* nothing unreleased succeeds and inserts a version whose changes are empty.
C16_HistoryKept ==
    [][(cmd' \in {"add", "release", "yank"} /\ Decodes(file)) =>
        /\ Decodes(file')
        /\ \A old \in {Doc(file)}, new \in {Doc(file')} :
           \A grown \in {Len(new.versions) - Len(old.versions)} :
               /\ grown \in {0, 1}
               /\ grown = 1 <=> (cmd' = "release" /\ status' = "ok")
               /\ cmd' # "add" =>
                      \A i \in 1..Len(Categories) :
                          Collected(new, Categories[i]) = Collected(old, Categories[i])
               /\ cmd' = "add" =>
                      /\ new.versions = old.versions
                      /\ \A i \in 1..Len(Categories) :
                             IsPrefix(old.unreleased[Categories[i]],
                                      new.unreleased[Categories[i]])
                      /\ CountChanges(new.unreleased) = CountChanges(old.unreleased) + 1
               /\ \A n \in 1..Len(old.versions) :
                      old.versions[n].yanked # None => new.versions[n + grown].yanked # None
               /\ (cmd' = "release" /\ is_empty(old.unreleased)) =>
                      \A a \in ReleaseArgs, today \in Clock :
                          (~version_exists(old, a.version) /\ CmdRelease(a, today))
                          => /\ status' = "ok"
                             /\ new.versions[1].version = a.version
                             /\ is_empty(new.versions[1].changes)]_vars

C16_Witness ==
    /\ cmd = "release"
    /\ status = "ok"
    /\ VersionStrings(Doc(file).versions) = <<"2.0.0", "1.0.0">>
    /\ is_empty(Doc(file).versions[1].changes)
    /\ ~is_empty(Doc(file).versions[2].changes)
    /\ Doc(file).versions[2].yanked # None
    /\ is_empty(Doc(file).unreleased)

====
